---- MODULE Spec2Model ----
(***************************************************************************)
(* Model of the Algolia index client facade described in                   *)
(* src/data/blog/algolia-nextjs-initialization.mdx (search, getAllResults, *)
(* multiSearch, create, mapIndexToSort) and of the post slicing done by    *)
(* the Home component of src/app/Main.tsx.                                 *)
(*                                                                         *)
(* The facade is single-threaded: a call runs until its first await, is    *)
(* suspended while a request is in flight, and its continuation runs when  *)
(* the backend answers.  Each action below is one such run-to-await step.  *)
(***************************************************************************)
EXTENDS Integers, Sequences, FiniteSets, TLC

(* ------------------------------ bounds --------------------------------- *)
\* largest number of records the backend index holds
MaxRecords == 4
\* largest page size the backend serves (a request for more is clamped)
MaxPageSize == 3
\* largest number of queries in one multiSearch call
MaxQueries == 3
\* largest number of posts handed to Home
MaxPosts == 9

(* ------------------------- program constants --------------------------- *)
\* hitsPerPage: 1000 in getAllResults
HitsPerPage == 1000
\* const MAX_DISPLAY = 3
MAX_DISPLAY == 3
\* const FEATURED_DISPLAY = 4
FEATURED_DISPLAY == 4

VARIABLES
    records,      \* backend: the records of the index, in delivery order
    pageCap,      \* backend: the page size P it serves
    pc,           \* facade call: "idle", "awaiting", "returned" or "failed"
    op,           \* name of the current (or last) operation
    args,         \* arguments of the current (or last) call
    allHits,      \* getAllResults: const allHits: T[] = []
    totalPages,   \* getAllResults: let totalPages: number ({} = undefined)
    currentPage,  \* getAllResults: let currentPage = 0
    inflight,     \* requests sent to the backend and not yet answered
    requestLog,   \* every request the current call has issued, in order
    responseLog,  \* every response the current call has received, in order
    processed,    \* backend: positions of the multi-search queries it has
                  \* answered so far, in the order it answered them
    result,       \* value the call resolved with
    error,        \* error the call rejected with ("none" if it did not)
    indexChanged  \* whether another client has written to the index since
                  \* the current call began

vars == <<records, pageCap, pc, op, args, allHits, totalPages, currentPage,
          inflight, requestLog, responseLog, processed, result, error,
          indexChanged>>

(* ------------------------------ helpers -------------------------------- *)
Min(a, b) == IF a < b THEN a ELSE b

\* ceil(n / d) for d > 0
CeilDiv(n, d) == (n + d - 1) \div d

\* an optional number is {} (undefined / absent) or {n}
ValueOf(opt) == CHOOSE x \in opt : TRUE

\* object spread {...a, ...b}: the keys of both, b winning on a clash
Spread(a, b) ==
    [k \in (DOMAIN a) \cup (DOMAIN b) |-> IF k \in DOMAIN b THEN b[k] ELSE a[k]]

\* the empty object (spreading undefined adds no key)
EmptyObject == [k \in {} |-> 0]

NoValue == [kind |-> "none"]

\* entries of responseLog: a response that arrived (with the nbPages field and
\* the number of hits it carried, where it has them) or a failure
Answered(nbPages, nbHits) ==
    [ok |-> TRUE, error |-> "none", nbPages |-> nbPages, nbHits |-> nbHits]

Failed(e) == [ok |-> FALSE, error |-> e, nbPages |-> {}, nbHits |-> 0]

\* the errors a backend request can fail with
Errors == {"NetworkError", "AuthError", "NotFoundError"}

(* ------------------------------ backend -------------------------------- *)
\* a stored record: its identifier and its content
Record(id, content) == [objectID |-> id, content |-> content]

\* the index as first populated: n records, identifiers 1..n
InitialIndex(n) == [i \in 1..n |-> Record(i, "old")]

\* page size served for a request: the requested one, clamped by the backend
ServedPageSize(params) == Min(params.hitsPerPage, pageCap)

\* the hits of page number params.page (0-based)
PageHits(params) ==
    LET P == ServedPageSize(params)
        first == params.page * P + 1
        last == Min(Len(records), (params.page + 1) * P)
    IN  SubSeq(records, first, last)

\* the nbPages field of a response: ceil(N/P); on an empty index the backend
\* reports 0 or leaves the field out
NbPagesFields(params) ==
    IF Len(records) = 0
    THEN {{0}, {}}
    ELSE {{CeilDiv(Len(records), ServedPageSize(params))}}

\* the successful responses the backend can give to a browse request
BrowseResponses(req) ==
    {[hits |-> PageHits(req.params.browseParams), nbPages |-> n] :
        n \in NbPagesFields(req.params.browseParams)}

\* the index is shared: another client adds a record while a browse of it is
\* under way
OtherClientAdds ==
    /\ pc = "awaiting" /\ op = "getAllResults"
    /\ Len(records) < MaxRecords
    /\ records' = Append(records, Record(Len(records) + 1, "new"))
    /\ indexChanged' = TRUE
    /\ UNCHANGED <<pageCap, pc, op, args, allHits, totalPages, currentPage,
                   inflight, requestLog, responseLog, processed, result, error>>

(* --------------------------- getAllResults ----------------------------- *)
\* what callers pass as BrowseProps
CallerBrowseArgs ==
    {[indexName |-> "products"],
     [indexName |-> "products", browseParams |-> [hitsPerPage |-> 2]],
     [indexName |-> "products", browseParams |-> [hitsPerPage |-> 1, page |-> 3]]}

BrowseParamsOf(a) ==
    IF "browseParams" \in DOMAIN a THEN a.browseParams ELSE EmptyObject

\* BrowseRequest with the spreads the wrong way round: the caller's
\* browseParams come last and win over hitsPerPage and page
BrowseRequestCallerWins(a, p) ==
    [method |-> "browse",
     params |-> Spread(a, [browseParams |->
                    Spread([hitsPerPage |-> HitsPerPage, page |-> p],
                           BrowseParamsOf(a))])]

\* the argument of client.browse for page number p
BrowseRequest(a, p) ==
    [method |-> "browse",
     params |-> Spread(a, [browseParams |->
                    Spread(BrowseParamsOf(a),
                           [hitsPerPage |-> HitsPerPage, page |-> p])])]

\* PushHits assigning instead of appending: allHits = hits
PushHitsOverwrite(all, hits) == hits

\* allHits.push(...hits)
PushHits(all, hits) == all \o hits

\* NbPagesOrZero without the "|| 0": totalPages = nbPages
NbPagesAsReported(nbPages) == nbPages

\* nbPages || 0
NbPagesOrZero(nbPages) ==
    IF nbPages = {} \/ nbPages = {0} THEN {0} ELSE nbPages

\* LoopAgain with an off-by-one test: while (currentPage <= totalPages)
LoopAgainInclusive(p, total) == total # {} /\ p <= ValueOf(total)

\* while (currentPage < totalPages); a comparison with undefined is false
LoopAgain(p, total) == total # {} /\ p < ValueOf(total)

Quiescent == pc \in {"idle", "returned", "failed"}

\* getAllResults up to its first await: the locals and the request for page 0
CallGetAllResults ==
    /\ Quiescent
    /\ \E a \in CallerBrowseArgs :
        /\ args' = a
        /\ inflight' = <<BrowseRequest(a, 0)>>
        /\ requestLog' = <<BrowseRequest(a, 0)>>
    /\ op' = "getAllResults"
    /\ pc' = "awaiting"
    /\ allHits' = <<>>
    /\ totalPages' = {}
    /\ currentPage' = 0
    /\ responseLog' = <<>>
    /\ processed' = <<>>
    /\ result' = NoValue
    /\ error' = "none"
    /\ indexChanged' = FALSE
    /\ UNCHANGED <<records, pageCap>>

\* the continuation after await client.browse resolves: the rest of the loop
\* body, the loop test, and either the next request or the return
BrowseResolved ==
    /\ pc = "awaiting" /\ op = "getAllResults"
    /\ inflight # <<>>
    /\ \E resp \in BrowseResponses(Head(inflight)) :
        LET hits == PushHits(allHits, resp.hits)
            total == NbPagesOrZero(resp.nbPages)
            page == currentPage + 1
        IN  /\ allHits' = hits
            /\ totalPages' = total
            /\ currentPage' = page
            /\ responseLog' = Append(responseLog,
                    Answered(resp.nbPages, Len(resp.hits)))
            /\ IF LoopAgain(page, total)
               THEN /\ inflight' = Append(Tail(inflight), BrowseRequest(args, page))
                    /\ requestLog' = Append(requestLog, BrowseRequest(args, page))
                    /\ UNCHANGED <<pc, result>>
               ELSE /\ inflight' = Tail(inflight)
                    /\ pc' = "returned"
                    /\ result' = [hits |-> hits, totalPages |-> total]
                    /\ UNCHANGED requestLog
    /\ UNCHANGED <<indexChanged, records, pageCap, op, args, processed, error>>

\* BrowseRejected with a catch around the request that gives up and returns
\* what was fetched so far
BrowseRejectedSwallowed ==
    /\ pc = "awaiting" /\ op = "getAllResults"
    /\ inflight # <<>>
    /\ \E e \in Errors :
        responseLog' = Append(responseLog,
            Failed(e))
    /\ inflight' = Tail(inflight)
    /\ pc' = "returned"
    /\ result' = [hits |-> allHits, totalPages |-> NbPagesOrZero(totalPages)]
    /\ UNCHANGED <<indexChanged, records, pageCap, op, args, allHits, totalPages, currentPage,
                   requestLog, processed, error>>

\* await client.browse rejects: nothing catches it, getAllResults rejects
\* with the same error
BrowseRejected ==
    /\ pc = "awaiting" /\ op = "getAllResults"
    /\ inflight # <<>>
    /\ \E e \in Errors :
        /\ error' = e
        /\ responseLog' = Append(responseLog,
                Failed(e))
    /\ inflight' = Tail(inflight)
    /\ pc' = "failed"
    /\ UNCHANGED <<indexChanged, records, pageCap, op, args, allHits, totalPages, currentPage,
                   requestLog, processed, result>>

(* ------------------------------- search -------------------------------- *)
\* what callers pass as SearchSingleIndexProps
CallerSearchArgs ==
    {[indexName |-> "products", searchParams |-> [query |-> q]] :
        q \in {"", "shoe"}}

\* the argument handed to client.searchSingleIndex: args, untouched
SearchRequest(a) == [method |-> "searchSingleIndex", params |-> a]

\* the page the backend answers a single-index search with
SearchResponse(req) ==
    [hits |-> SubSeq(records, 1, Min(Len(records), pageCap)),
     nbPages |-> CeilDiv(Len(records), pageCap),
     query |-> req.params.searchParams.query]

\* locals of a call that uses none of the pagination state
NoPagination ==
    /\ allHits' = <<>>
    /\ totalPages' = {}
    /\ currentPage' = 0
    /\ processed' = <<>>

\* search: return client.searchSingleIndex(args)
CallSearch ==
    /\ Quiescent
    /\ \E a \in CallerSearchArgs :
        /\ args' = a
        /\ inflight' = <<SearchRequest(a)>>
        /\ requestLog' = <<SearchRequest(a)>>
    /\ op' = "search"
    /\ pc' = "awaiting"
    /\ responseLog' = <<>>
    /\ result' = NoValue
    /\ error' = "none"
    /\ NoPagination
    /\ indexChanged' = FALSE
    /\ UNCHANGED <<records, pageCap>>

\* the promise of client.searchSingleIndex resolves: search resolves with it
SearchResolved ==
    /\ pc = "awaiting" /\ op = "search"
    /\ inflight # <<>>
    /\ result' = SearchResponse(Head(inflight))
    /\ responseLog' = Append(responseLog,
            Answered({}, 0))
    /\ inflight' = Tail(inflight)
    /\ pc' = "returned"
    /\ UNCHANGED <<indexChanged, records, pageCap, op, args, allHits, totalPages, currentPage,
                   requestLog, processed, error>>

\* the promise rejects: search rejects with the same error
SearchRejected ==
    /\ pc = "awaiting" /\ op = "search"
    /\ inflight # <<>>
    /\ \E e \in Errors :
        /\ error' = e
        /\ responseLog' = Append(responseLog,
                Failed(e))
    /\ inflight' = Tail(inflight)
    /\ pc' = "failed"
    /\ UNCHANGED <<indexChanged, records, pageCap, op, args, allHits, totalPages, currentPage,
                   requestLog, processed, result>>

(* ----------------------------- multiSearch ----------------------------- *)
QueryTexts == {"shoe", "hat"}

\* what callers pass as SearchMethodParams: a list of up to MaxQueries queries
CallerMultiSearchArgs ==
    UNION {[1..k -> QueryTexts] : k \in 0..MaxQueries}

\* the result set the backend computes for one query
AnswerTo(q) == [query |-> q, nbHits |-> Len(records)]

\* MultiSearchResults in the order the backend finished the queries
MultiSearchResultsAsCompleted(queries, order) ==
    [j \in 1..Len(queries) |-> AnswerTo(queries[order[j]])]

\* the result sets of a finished multi-search, one per submitted query, at the
\* position of its query
MultiSearchResults(queries, order) ==
    [i \in 1..Len(queries) |-> AnswerTo(queries[i])]

\* multiSearch: hands the queries to the backend in one request
CallMultiSearch ==
    /\ Quiescent
    /\ \E qs \in CallerMultiSearchArgs :
        /\ args' = [requests |-> qs]
        /\ inflight' = <<[method |-> "search", params |-> [requests |-> qs]]>>
        /\ requestLog' = <<[method |-> "search", params |-> [requests |-> qs]]>>
    /\ op' = "multiSearch"
    /\ pc' = "awaiting"
    /\ responseLog' = <<>>
    /\ result' = NoValue
    /\ error' = "none"
    /\ NoPagination
    /\ indexChanged' = FALSE
    /\ UNCHANGED <<records, pageCap>>

\* the backend answers one of the queries it has not answered yet, whichever
BackendAnswersQuery ==
    /\ pc = "awaiting" /\ op = "multiSearch"
    /\ \E i \in 1..Len(args.requests) :
        /\ \A j \in 1..Len(processed) : processed[j] # i
        /\ processed' = Append(processed, i)
    /\ UNCHANGED <<indexChanged, records, pageCap, pc, op, args, allHits, totalPages,
                   currentPage, inflight, requestLog, responseLog, result, error>>

\* every query is answered: the response arrives and multiSearch resolves
MultiSearchResolved ==
    /\ pc = "awaiting" /\ op = "multiSearch"
    /\ inflight # <<>>
    /\ Len(processed) = Len(args.requests)
    /\ result' = MultiSearchResults(args.requests, processed)
    /\ responseLog' = Append(responseLog,
            Answered({}, 0))
    /\ inflight' = Tail(inflight)
    /\ pc' = "returned"
    /\ UNCHANGED <<indexChanged, records, pageCap, op, args, allHits, totalPages, currentPage,
                   requestLog, processed, error>>

(* ------------------------------- create -------------------------------- *)
HasRecord(index, id) == \E i \in 1..Len(index) : index[i].objectID = id

\* CreateObjects as an upsert: a record whose identifier is taken is replaced
CreateObjectsUpsert(index, obj) ==
    IF HasRecord(index, obj.objectID)
    THEN [i \in 1..Len(index) |->
            IF index[i].objectID = obj.objectID THEN obj ELSE index[i]]
    ELSE Append(index, obj)

\* the index after the backend has handled a create of obj: a record whose
\* identifier is taken stays as it is, a new one is added at the end
CreateObjects(index, obj) ==
    IF HasRecord(index, obj.objectID) THEN index ELSE Append(index, obj)

\* the identifiers a caller may try to create: the stored ones and a fresh one
CreatableIds == 1..Min(Len(records) + 1, MaxRecords)

\* create: hands the object to the backend
CallCreate ==
    /\ Quiescent
    /\ \E id \in CreatableIds :
        LET a == [indexName |-> "products", objects |-> <<Record(id, "new")>>]
        IN  /\ args' = a
            /\ inflight' = <<[method |-> "createObjects", params |-> a]>>
            /\ requestLog' = <<[method |-> "createObjects", params |-> a]>>
    /\ op' = "create"
    /\ pc' = "awaiting"
    /\ responseLog' = <<>>
    /\ result' = NoValue
    /\ error' = "none"
    /\ NoPagination
    /\ indexChanged' = FALSE
    /\ UNCHANGED <<records, pageCap>>

\* the backend has handled the create and answers: the call resolves, or, when
\* the identifier was taken, it may reject instead
CreateResolved ==
    /\ pc = "awaiting" /\ op = "create"
    /\ inflight # <<>>
    /\ records' = CreateObjects(records, args.objects[1])
    /\ \/ /\ pc' = "returned"
          /\ result' = [kind |-> "created"]
          /\ error' = "none"
          /\ responseLog' = Append(responseLog,
                Answered({}, 0))
       \/ /\ HasRecord(records, args.objects[1].objectID)
          /\ pc' = "failed"
          /\ result' = NoValue
          /\ error' = "AlreadyExists"
          /\ responseLog' = Append(responseLog,
                Failed("AlreadyExists"))
    /\ inflight' = Tail(inflight)
    /\ UNCHANGED <<indexChanged, pageCap, op, args, allHits, totalPages,
                   currentPage, requestLog, processed>>

(* ---------------------------- mapIndexToSort --------------------------- *)
\* export type SortType
SortType ==
    {"minPrice:desc", "minPrice:asc", "avgRating:desc",
     "updatedAtTimestamp:asc", "updatedAtTimestamp:desc"}

\* values that are not of SortType but reach the function at run time
OtherSortValues == {"", "minPrice", "minPrice:ASC", "avgRating:asc", "price_asc"}

IndexNames == {"products", "posts", ""}

\* mapIndexToSort with a copied case left unedited: minPrice:asc gives the
\* suffix of minPrice:desc
mapIndexToSortCopiedCase(index, sortOption) ==
    CASE sortOption = "minPrice:desc" -> index \o "_price_desc"
      [] sortOption = "minPrice:asc" -> index \o "_price_desc"
      [] sortOption = "avgRating:desc" -> index \o "_rating_desc"
      [] sortOption = "updatedAtTimestamp:asc" -> index \o "_updated_asc"
      [] sortOption = "updatedAtTimestamp:desc" -> index \o "_updated_desc"
      [] OTHER -> index

\* mapIndexToSort whose default case builds a name from the raw option
mapIndexToSortNoFallback(index, sortOption) ==
    CASE sortOption = "minPrice:desc" -> index \o "_price_desc"
      [] sortOption = "minPrice:asc" -> index \o "_price_asc"
      [] sortOption = "avgRating:desc" -> index \o "_rating_desc"
      [] sortOption = "updatedAtTimestamp:asc" -> index \o "_updated_asc"
      [] sortOption = "updatedAtTimestamp:desc" -> index \o "_updated_desc"
      [] OTHER -> index \o "_" \o sortOption

mapIndexToSort(index, sortOption) ==
    CASE sortOption = "minPrice:desc" -> index \o "_price_desc"
      [] sortOption = "minPrice:asc" -> index \o "_price_asc"
      [] sortOption = "avgRating:desc" -> index \o "_rating_desc"
      [] sortOption = "updatedAtTimestamp:asc" -> index \o "_updated_asc"
      [] sortOption = "updatedAtTimestamp:desc" -> index \o "_updated_desc"
      [] OTHER -> index

\* a call of mapIndexToSort: synchronous, it returns at once
CallMapIndexToSort ==
    /\ Quiescent
    /\ \E index \in IndexNames, sortOption \in SortType \cup OtherSortValues :
        /\ args' = [index |-> index, sortOption |-> sortOption]
        /\ result' = mapIndexToSort(index, sortOption)
    /\ op' = "mapIndexToSort"
    /\ pc' = "returned"
    /\ inflight' = <<>>
    /\ requestLog' = <<>>
    /\ responseLog' = <<>>
    /\ error' = "none"
    /\ NoPagination
    /\ indexChanged' = FALSE
    /\ UNCHANGED <<records, pageCap>>

(* --------------------------------- Home -------------------------------- *)
\* Array.prototype.slice(start, end) for 0 <= start, 0 <= end (0-based, end
\* exclusive, both clamped to the length)
Slice(s, start, end) == SubSeq(s, Min(start, Len(s)) + 1, Min(end, Len(s)))

\* a list of n posts, newest first, told apart by their slug
PostList(n) == [i \in 1..n |-> [slug |-> i]]

\* Home showing the link as soon as the list is longer than MAX_DISPLAY
HomeLinkAfterMaxDisplay(posts) ==
    [featuredPosts |-> Slice(posts, 0, FEATURED_DISPLAY),
     remainingPosts |-> Slice(posts, FEATURED_DISPLAY, FEATURED_DISPLAY + MAX_DISPLAY),
     allPostsLink |-> Len(posts) > MAX_DISPLAY]

\* what Home computes from posts: the two groups it renders and whether the
\* "All Posts" link is rendered
Home(posts) ==
    [featuredPosts |-> Slice(posts, 0, FEATURED_DISPLAY),
     remainingPosts |-> Slice(posts, FEATURED_DISPLAY, FEATURED_DISPLAY + MAX_DISPLAY),
     allPostsLink |-> Len(posts) > FEATURED_DISPLAY + MAX_DISPLAY]

\* one render of Home
RenderHome ==
    /\ Quiescent
    /\ \E n \in 0..MaxPosts :
        /\ args' = [posts |-> PostList(n)]
        /\ result' = Home(PostList(n))
    /\ op' = "Home"
    /\ pc' = "returned"
    /\ inflight' = <<>>
    /\ requestLog' = <<>>
    /\ responseLog' = <<>>
    /\ error' = "none"
    /\ NoPagination
    /\ indexChanged' = FALSE
    /\ UNCHANGED <<records, pageCap>>

(* ------------------------------- Init ---------------------------------- *)
Init ==
    /\ \E n \in 0..MaxRecords : records = InitialIndex(n)
    /\ pageCap \in 1..MaxPageSize
    /\ pc = "idle"
    /\ op = "none"
    /\ args = NoValue
    /\ allHits = <<>>
    /\ totalPages = {}
    /\ currentPage = 0
    /\ inflight = <<>>
    /\ requestLog = <<>>
    /\ responseLog = <<>>
    /\ processed = <<>>
    /\ result = NoValue
    /\ error = "none"
    /\ indexChanged = FALSE

Next ==
    \/ CallGetAllResults
    \/ BrowseResolved
    \/ BrowseRejected
    \/ OtherClientAdds
    \/ CallSearch
    \/ SearchResolved
    \/ SearchRejected
    \/ CallMultiSearch
    \/ BackendAnswersQuery
    \/ MultiSearchResolved
    \/ CallCreate
    \/ CreateResolved
    \/ CallMapIndexToSort
    \/ RenderHome

Spec == Init /\ [][Next]_vars

\* every request the facade awaits is eventually settled by the backend
BackendResponds ==
    \/ BrowseResolved
    \/ BrowseRejected
    \/ SearchResolved
    \/ SearchRejected
    \/ BackendAnswersQuery
    \/ MultiSearchResolved
    \/ CreateResolved

LiveSpec == Spec /\ WF_vars(BackendResponds)

(* ------------------------------ properties ----------------------------- *)
Browsing == op = "getAllResults"

BrowseReturned == op = "getAllResults" /\ pc = "returned"

\* C1: when getAllResults returns, over an index of N records served in pages
\* of size P with nbPages = ceil(N/P) on every response, the hits it returns
\* are exactly the N records of the index, each once, in the order the backend
\* delivers them, and the page count it returns is ceil(N/P).
C1_AllRecordsInOrder ==
    (BrowseReturned /\ ~indexChanged) =>
        /\ result.hits = records
        /\ \E pages \in 0..Len(records) :
            /\ result.totalPages = {pages}
            /\ pages * pageCap >= Len(records)
            /\ (pages - 1) * pageCap < Len(records)

\* a return after several pages, the last one not full
C1_Witness ==
    /\ BrowseReturned
    /\ ~indexChanged
    /\ Len(responseLog) >= 2
    /\ Len(records) % pageCap # 0
    /\ Len(result.hits) = Len(records)

\* C2: on an empty index, once the backend has answered the request (no hits,
\* nbPages 0 or absent), getAllResults has returned, without error, an empty
\* hit list and a page count of 0, after that single request.
C2_EmptyIndex ==
    (/\ Browsing
     /\ responseLog # <<>>
     /\ responseLog[1].ok
     /\ responseLog[1].nbHits = 0
     /\ responseLog[1].nbPages \in {{}, {0}}) =>
        /\ pc = "returned"
        /\ error = "none"
        /\ result.hits = <<>>
        /\ result.totalPages = {0}
        /\ Len(requestLog) = 1

\* the empty index answered with the nbPages field absent
C2_Witness ==
    /\ BrowseReturned
    /\ Len(records) = 0
    /\ Len(responseLog) = 1
    /\ responseLog[1].ok
    /\ responseLog[1].nbHits = 0
    /\ responseLog[1].nbPages = {}

\* the replica suffix of each sort option
ReplicaSuffix(sortOption) ==
    CASE sortOption = "minPrice:desc" -> "_price_desc"
      [] sortOption = "minPrice:asc" -> "_price_asc"
      [] sortOption = "avgRating:desc" -> "_rating_desc"
      [] sortOption = "updatedAtTimestamp:asc" -> "_updated_asc"
      [] sortOption = "updatedAtTimestamp:desc" -> "_updated_desc"

\* C3: for every index identifier and every option of SortType, mapIndexToSort
\* returns the identifier followed by the option's replica suffix; products
\* with minPrice:asc gives products_price_asc and with avgRating:desc gives
\* products_rating_desc; distinct options give distinct names for one index.
C3_ReplicaName ==
    (op = "mapIndexToSort" /\ args.sortOption \in SortType) =>
        /\ result = args.index \o ReplicaSuffix(args.sortOption)
        /\ (args.index = "products" /\ args.sortOption = "minPrice:asc")
                => result = "products_price_asc"
        /\ (args.index = "products" /\ args.sortOption = "avgRating:desc")
                => result = "products_rating_desc"
        /\ \A other \in SortType \ {args.sortOption} :
                mapIndexToSort(args.index, other) # result

C3_Witness ==
    /\ op = "mapIndexToSort"
    /\ pc = "returned"
    /\ args = [index |-> "products", sortOption |-> "avgRating:desc"]
    /\ result = "products_rating_desc"

\* C4: for every index identifier and every sort value outside SortType,
\* mapIndexToSort returns the identifier unchanged and raises no error.
C4_Fallback ==
    (op = "mapIndexToSort" /\ args.sortOption \notin SortType) =>
        /\ pc = "returned"
        /\ error = "none"
        /\ result = args.index

C4_Witness ==
    /\ op = "mapIndexToSort"
    /\ pc = "returned"
    /\ args = [index |-> "products", sortOption |-> "minPrice:ASC"]
    /\ result = "products"

C6_FailurePropagates ==
    (op \in {"search", "getAllResults"} /\
     \E k \in 1..Len(responseLog) : ~responseLog[k].ok) =>
        /\ pc = "failed"
        /\ error = responseLog[Len(responseLog)].error
        /\ error \in Errors
        /\ \A k \in 1..(Len(responseLog) - 1) : responseLog[k].ok
        /\ inflight = <<>>
        /\ Len(requestLog) = Len(responseLog)
        /\ \A i, j \in 1..Len(requestLog) :
                i # j => requestLog[i] # requestLog[j]
        /\ result = NoValue

\* getAllResults failing on a later page, with hits of earlier pages in hand
C6_Witness ==
    /\ Browsing
    /\ pc = "failed"
    /\ Len(responseLog) >= 2
    /\ allHits # <<>>
    /\ error = "AuthError"

\* the record stored under id
Stored(index, id) ==
    index[CHOOSE i \in 1..Len(index) : index[i].objectID = id]

C8_SequentialRequests ==
    Browsing =>
        /\ Len(inflight) <= 1
        /\ Len(requestLog) = Len(responseLog) + Len(inflight)
        /\ \A k \in 1..Len(requestLog) :
            /\ requestLog[k].params.browseParams.page = k - 1
            /\ requestLog[k].params.browseParams.hitsPerPage = 1000
            /\ requestLog[k].params.indexName = args.indexName

\* a third request in flight for a caller that supplied its own page size
\* and page number
C8_Witness ==
    /\ Browsing
    /\ pc = "awaiting"
    /\ Len(requestLog) = 3
    /\ Len(inflight) = 1
    /\ "browseParams" \in DOMAIN args
    /\ "page" \in DOMAIN args.browseParams
    /\ args.browseParams.hitsPerPage # 1000

\* the page count a response reports, read as the code reads it
Reported(resp) == IF resp.nbPages = {} THEN 0 ELSE ValueOf(resp.nbPages)

\* C9: provided the backend answers every request, a getAllResults call ends;
\* when it returns it has stopped at the first response for which the number
\* of pages fetched so far reaches the page count that response reports, and
\* not before; with zero pages it returns after its single request.
C9_StopsWhenExhausted ==
    /\ [](Browsing =>
            /\ \A k \in 1..Len(responseLog) :
                (responseLog[k].ok /\ k >= Reported(responseLog[k]))
                    => (k = Len(responseLog) /\ pc = "returned")
            /\ pc = "returned" =>
                /\ responseLog # <<>>
                /\ Len(responseLog) >= Reported(responseLog[Len(responseLog)])
                /\ Reported(responseLog[1]) = 0 => Len(requestLog) = 1)
    /\ (Browsing /\ pc = "awaiting") ~> (Browsing /\ pc \in {"returned", "failed"})

\* a return after three pages
C9_Witness ==
    /\ BrowseReturned
    /\ Len(responseLog) = 3
    /\ Reported(responseLog[3]) = 3

\* C10: Home features the first min(len, 4) posts and lists the next up to 3
\* as latest: the groups keep the input order, share no post and together are
\* the first min(len, 7) posts; the All Posts link is shown exactly when the
\* list has more than 7 posts, that is when some post is in neither group.
C10_HomeGroups ==
    (op = "Home") =>
        LET posts == args.posts
            f == result.featuredPosts
            r == result.remainingPosts
        IN  /\ Len(f) = Min(Len(posts), 4)
            /\ \A i \in 1..Len(f) : f[i] = posts[i]
            /\ Len(r) = Min(Len(posts) - Len(f), 3)
            /\ \A i \in 1..Len(r) : r[i] = posts[4 + i]
            /\ \A i \in 1..Len(f), j \in 1..Len(r) : f[i] # r[j]
            /\ f \o r = SubSeq(posts, 1, Min(Len(posts), 7))
            /\ result.allPostsLink <=> Len(posts) > 7
            /\ result.allPostsLink <=>
                    \E i \in 1..Len(posts) :
                        /\ \A j \in 1..Len(f) : f[j] # posts[i]
                        /\ \A j \in 1..Len(r) : r[j] # posts[i]

\* nine posts: four featured, three latest, two behind the link
C10_Witness ==
    /\ op = "Home"
    /\ Len(args.posts) = 9
    /\ Len(result.featuredPosts) = 4
    /\ Len(result.remainingPosts) = 3
    /\ result.allPostsLink
====
